---- MODULE Spec2Model ----
(***************************************************************************)
(* FAME processing modules: HatchingTriage, UnpacMe and ExtractPatool.     *)
(*                                                                         *)
(* One module instance is modelled.  `module` says which class it is; the  *)
(* configuration is drawn in Init; each_with_type / each are run one       *)
(* invocation after the other on that instance.  The remote service, the   *)
(* archive library and the clock are the environment: every answer they    *)
(* can give is an input of the step that asks for it.                      *)
(***************************************************************************)
EXTENDS Integers, Sequences, FiniteSets, TLC

\* ------------------------------------------------------------------ bounds
MaxId == 2            \* task ids the service hands out: 1..MaxId
MaxItems == 2         \* entries in an UnpacMe search result
MaxTimeout == 3       \* largest configured wait_timeout
MaxStep == 2          \* largest configured wait_step
MaxInvocations == 2   \* invocations on the same module instance
MaxMembers == 4       \* members of an extracted archive
MaxLimit == 3         \* largest maximum_extracted_files / maximum_automatic_analyses
MaxExtracted == 2     \* sub-items of report['extracted']
MaxSignatures == 2    \* entries of report['signatures']
MaxTasks == 1         \* entries of report['tasks']
MaxFlows == 1         \* flows of a task report
MaxRequests == 2      \* requests of a task report

\* ------------------------------------------------------- program constants
TRIAGE_SEARCH_MAX == 1     \* triage_client.search(sha256, max=1)

Ids == 1..MaxId
NoAttr == 0                \* self.task_id was never assigned
NoIdKey == 0               \* an item / response without its id key
NetError == -1             \* the request raised

\* `name` of the three classes
Modules == {"hatching_triage", "unpacme", "extract_patool"}
SandboxModules == {"hatching_triage", "unpacme"}

\* The status value that ends the polling loop.
TerminalStatus(m) == IF m = "hatching_triage" THEN "reported" ELSE "complete"

Statuses(m) == {"pending", "failed", TerminalStatus(m)}

TimeoutMsg == "could not get report before timeout."
ReportErrorMsg == "Error encountered while processing report"
FoundMsg == "Found existing report."
NoReportsMsg == "No reports found. Submitting file."

\* web_endpoint values: the default of each module (path segments, ending
\* with "/") and the same URL configured without its trailing "/".
WebEndpoints(m) ==
    IF m = "hatching_triage"
    THEN {[segs |-> <<>>, slash |-> TRUE], [segs |-> <<>>, slash |-> FALSE]}
    ELSE {[segs |-> <<"results">>, slash |-> TRUE],
          [segs |-> <<"results">>, slash |-> FALSE]}

NoURL == [segs |-> <<>>, leaf |-> NoAttr]

Front(s) == IF s = <<>> THEN <<>> ELSE SubSeq(s, 1, Len(s) - 1)

\* urllib.parse.urljoin(base, "<task id>") for a relative one-segment
\* reference: the reference replaces whatever follows the last "/" of base.
Urljoin(base, tid) ==
    [segs |-> IF base.slash THEN base.segs ELSE Front(base.segs), leaf |-> tid]

VARIABLES
    module,                      \* which class the instance is
    wait_timeout, wait_step,     \* config
    check_existing,              \* config
    web_endpoint,                \* config
    maximum_extracted_files,     \* config (ExtractPatool)
    maximum_automatic_analyses,  \* config (ExtractPatool)
    pc,                          \* position inside each_with_type
    file_type,                   \* argument of the running invocation
    task_id,                     \* self.task_id
    results,                     \* self.results
    waited_time, status,         \* locals of wait_for_analysis
    error,                       \* exception in flight ("none" when none)
    log,                         \* messages given to self.log in this invocation
    returned,                    \* what the last invocation gave the host
    calls,                       \* external calls made in this invocation
    search,                      \* what the dedup search answered in this invocation
    obtained, used,              \* task ids obtained / used in this invocation
    sinks,                       \* framework sinks fed in this invocation
    exhausted,                   \* the polling loop ended on its condition
    invocations,                 \* invocations started so far
    archive,                     \* ExtractPatool: the archive of the last invocation
    extracted_files,             \* ExtractPatool: add_extracted_file calls
    report, configuration,       \* extract_info: its input and add_extraction's map
    signatures,                  \* extract_info: self.results['signatures']
    iocs,                        \* extract_info: the add_ioc calls, in order
    fetched                      \* extract_info: the task reports fetched, one per task walked

config_vars == <<module, wait_timeout, wait_step, check_existing, web_endpoint,
                 maximum_extracted_files, maximum_automatic_analyses>>
sandbox_vars == <<pc, file_type, task_id, results, waited_time, status, error, log,
                  calls, search, obtained, used, sinks, exhausted>>
patool_vars == <<archive, extracted_files>>
extract_vars == <<report, configuration, signatures, iocs, fetched>>
vars == <<config_vars, sandbox_vars, patool_vars, extract_vars, returned, invocations>>

NoCalls == [search |-> 0, submit |-> 0, status |-> 0, report |-> 0]
NoSearch == [kind |-> "none", items |-> <<>>]
NoResults == [keys |-> {}, URL |-> NoURL]
NoArchive == [ok |-> TRUE, members |-> 0]

\* Every exception the modelled code can raise, named by the text that
\* "{}".format(error) logs.  All of them derive from Exception.
Exceptions == {"RequestError", "ValueError", "KeyError", "AttributeError",
               "UnboundLocalError", "PatoolError", TimeoutMsg, ReportErrorMsg}

\* acts_on: the types each_with_type is called with ("pdf" stands for the
\* file types of Hatching Triage other than 'executable').
FileTypes(m) == IF m = "hatching_triage" THEN {"url", "executable", "pdf"}
                ELSE {"executable"}

\* Answers of the search endpoint: the request raises, the body is not
\* JSON, the JSON lacks the result list, or a list of matches (an entry is a
\* task id, or NoIdKey when the entry has no id key).
RECURSIVE SeqsUpTo(_, _)
SeqsUpTo(S, n) ==
    IF n = 0 THEN {<<>>}
    ELSE LET shorter == SeqsUpTo(S, n - 1)
         IN  shorter \cup {Append(q, x) : q \in shorter, x \in S}

SearchAnswers(m) ==
    [kind : {"neterror", "notjson", "nokey"}, items : {<<>>}]
    \cup [kind : {"list"},
          items : SeqsUpTo(Ids \cup {NoIdKey},
                           IF m = "hatching_triage" THEN TRIAGE_SEARCH_MAX ELSE MaxItems)]

\* Answers of the upload endpoint: a task id, a body without 'id', or the
\* request raises.
SubmitAnswers == Ids \cup {NoIdKey, NetError}

\* The part of `self` the submission stage works on.
Self0(tid) == [task_id |-> tid, error |-> "none", submit |-> 0,
               obtained |-> {}, log |-> {}]

\* A handler that catches ModuleExecutionError only.
ExceptModuleExecutionError(e) == e \in {TimeoutMsg, ReportErrorMsg}

\* `except Exception as error` of each_with_type / each.
ExceptException(e) == e \in Exceptions

\* submit_file / submit_url: one upload, the handle is response['id'].
SubmitFile(m, s, sresp) ==
    IF sresp = NetError
    THEN [s EXCEPT !.submit = @ + 1, !.error = "RequestError"]
    ELSE LET logged == IF m = "unpacme" THEN s.log \cup {"upload response"} ELSE s.log
         IN  IF sresp = NoIdKey
             THEN [s EXCEPT !.submit = @ + 1, !.log = logged, !.error = "KeyError"]
             ELSE [s EXCEPT !.submit = @ + 1, !.log = logged, !.task_id = sresp,
                            !.obtained = @ \cup {sresp}]

\* The `for item in response` loop of search_file: every entry with an id
\* is adopted in turn; an entry without one raises inside the try.
RECURSIVE ForItems(_, _)
ForItems(items, acc) ==
    IF items = <<>> THEN acc
    ELSE IF Head(items) = NoIdKey THEN [acc EXCEPT !.raised = TRUE]
    ELSE ForItems(Tail(items),
                  [acc EXCEPT !.s.task_id = Head(items),
                              !.s.obtained = @ \cup {Head(items)},
                              !.s.log = @ \cup {FoundMsg}])

\* A search_file whose fallback runs after every search (for ... else).
RaisesInTryAlways(m, resp) == TRUE

\* Whether the search answer raises inside the try block of search_file.
\* Triage's client.search returns a lazy paginator: the request is made by
\* the iteration.  UnpacMe requests and decodes before the try.
RaisesInTry(m, resp) ==
    \/ m = "hatching_triage" /\ resp.kind # "list"
    \/ m = "unpacme" /\ resp.kind = "nokey"
    \/ resp.kind = "list" /\ ForItems(resp.items, [s |-> Self0(NoAttr), raised |-> FALSE]).raised

\* Whether the search answer raises before the try block.
RaisesBeforeTry(m, resp) ==
    m = "unpacme" /\ resp.kind \in {"neterror", "notjson"}

SearchFile(m, s, resp, sresp) ==
    IF RaisesBeforeTry(m, resp)
    THEN [s EXCEPT !.error = IF resp.kind = "neterror" THEN "RequestError" ELSE "ValueError"]
    ELSE LET looped == IF resp.kind = "list"
                       THEN ForItems(resp.items, [s |-> s, raised |-> FALSE]).s
                       ELSE s
         IN  IF RaisesInTry(m, resp)
             THEN SubmitFile(m, [looped EXCEPT !.log = @ \cup {NoReportsMsg}], sresp)
             ELSE looped

TypeOK ==
    /\ module \in Modules
    /\ pc \in {"idle", "submit", "wait", "report", "url", "except", "return",
               "extract_info", "tasks", "extracted"}
    /\ task_id \in Ids \cup {NoAttr}
    /\ returned \in {"none", "True", "raised"}
    /\ error \in Exceptions \cup {"none"}
    /\ invocations \in 0..MaxInvocations

Init ==
    /\ module \in Modules
    /\ wait_timeout \in IF module \in SandboxModules THEN -1..MaxTimeout ELSE {0}
    /\ wait_step \in IF module \in SandboxModules THEN -1..MaxStep ELSE {0}
    /\ check_existing \in IF module \in SandboxModules THEN BOOLEAN ELSE {FALSE}
    /\ web_endpoint \in IF module \in SandboxModules THEN WebEndpoints(module)
                        ELSE {[segs |-> <<>>, slash |-> TRUE]}
    /\ maximum_extracted_files \in IF module = "extract_patool" THEN 0..MaxLimit ELSE {0}
    /\ maximum_automatic_analyses \in IF module = "extract_patool" THEN 0..MaxLimit ELSE {0}
    /\ pc = "idle"
    /\ file_type = "none"
    /\ task_id = NoAttr
    /\ results = NoResults
    /\ waited_time = 0
    /\ status = "Unbound"
    /\ error = "none"
    /\ log = {}
    /\ returned = "none"
    /\ calls = NoCalls
    /\ search = NoSearch
    /\ obtained = {}
    /\ used = {}
    /\ sinks = {}
    /\ exhausted = FALSE
    /\ invocations = 0
    /\ archive = NoArchive
    /\ extracted_files = <<>>
    /\ report = <<>>
    /\ configuration = <<>>
    /\ signatures = <<>>
    /\ iocs = <<>>
    /\ fetched = <<>>

\* ------------------------------------------------- each_with_type, by stage

\* A loop that also runs when waited_time equals the timeout.
LoopCondInclusive(waited, timeout) == waited <= timeout

\* `while waited_time < self.wait_timeout`
LoopCond(waited, timeout) == waited < timeout

\* The model stops a polling loop that a wait_step of 0 makes endless.
MaxChecks == MaxTimeout + 2

\* Keys that extract_info writes into self.results before it walks the report.
ReportKeys(m) == IF m = "hatching_triage" THEN {"score", "signatures"}
                 ELSE {"unpacked_executables"}

\* Framework sinks extract_info can feed, depending on the report.
SinkKinds(m) == IF m = "hatching_triage"
                THEN {"add_probable_name", "add_ioc", "add_extraction", "register_files"}
                ELSE {"register_files"}

\* Entry of each_with_type: a fresh result dict (UnpacMe stores the digest
\* of the target in it).
Invoke ==
    /\ module \in SandboxModules
    /\ pc = "idle"
    /\ invocations < MaxInvocations
    /\ \E ft \in FileTypes(module) : file_type' = ft
    /\ invocations' = invocations + 1
    /\ results' = [keys |-> IF module = "unpacme" THEN {"parent"} ELSE {}, URL |-> NoURL]
    /\ pc' = "submit"
    /\ waited_time' = 0
    /\ status' = "Unbound"
    /\ error' = "none"
    /\ log' = {}
    /\ calls' = NoCalls
    /\ search' = NoSearch
    /\ obtained' = {}
    /\ used' = {}
    /\ sinks' = {}
    /\ exhausted' = FALSE
    /\ returned' = "none"
    /\ UNCHANGED <<config_vars, task_id, patool_vars, extract_vars>>

\* Leaves the submission stage with what it did to `self`.
Submitted(s) ==
    /\ task_id' = s.task_id
    /\ error' = s.error
    /\ log' = log \cup s.log
    /\ obtained' = s.obtained
    /\ calls' = [calls EXCEPT !.submit = s.submit,
                              !.search = IF search' = NoSearch THEN 0 ELSE 1]
    /\ pc' = IF s.error = "none" THEN "wait" ELSE "except"
    /\ UNCHANGED <<config_vars, file_type, results, waited_time, status, used, sinks,
                   exhausted, returned, invocations, patool_vars, extract_vars>>

\* file_type == 'url' (Hatching Triage only): submit_url.
SubmitUrl ==
    /\ module = "hatching_triage"
    /\ pc = "submit"
    /\ file_type = "url"
    /\ search' = NoSearch
    /\ \E sresp \in SubmitAnswers : Submitted(SubmitFile(module, Self0(task_id), sresp))

\* The target is a file the module submits (UnpacMe acts on 'executable'
\* only, so its `if file_type == 'executable'` is always taken).
IsFileTarget ==
    \/ module = "hatching_triage" /\ file_type # "url"
    \/ module = "unpacme" /\ file_type = "executable"

\* check_existing: search_file, which may itself call submit_file.
SearchStage ==
    /\ pc = "submit"
    /\ IsFileTarget
    /\ check_existing
    /\ \E resp \in SearchAnswers(module), sresp \in SubmitAnswers :
          /\ search' = resp
          /\ Submitted(SearchFile(module, Self0(task_id), resp, sresp))

\* not check_existing: submit_file.
SubmitStage ==
    /\ pc = "submit"
    /\ IsFileTarget
    /\ ~check_existing
    /\ search' = NoSearch
    /\ \E sresp \in SubmitAnswers : Submitted(SubmitFile(module, Self0(task_id), sresp))

\* Raise: the exception travels to the handler of each_with_type.
Raise(e) ==
    /\ error' = e
    /\ pc' = "except"

\* One turn of the polling loop of wait_for_analysis.
StatusCheck ==
    /\ pc = "wait"
    /\ LoopCond(waited_time, wait_timeout)
    /\ calls.status < MaxChecks
    /\ IF task_id = NoAttr
       THEN /\ Raise("AttributeError")
            /\ UNCHANGED <<calls, used, status, waited_time>>
       ELSE /\ calls' = [calls EXCEPT !.status = @ + 1]
            /\ used' = used \cup {task_id}
            /\ \E r \in Statuses(module) \cup {"error"} :
                 IF r = "error"
                 THEN Raise("RequestError") /\ UNCHANGED <<status, waited_time>>
                 ELSE /\ status' = r
                      /\ IF r = TerminalStatus(module)
                         THEN pc' = "report" /\ UNCHANGED <<error, waited_time>>
                         ELSE IF wait_step < 0
                         THEN Raise("ValueError") /\ UNCHANGED waited_time
                         ELSE /\ waited_time' = waited_time + wait_step
                              /\ UNCHANGED <<pc, error>>
    /\ UNCHANGED <<config_vars, file_type, task_id, results, log, search, obtained,
                   sinks, exhausted, returned, invocations, patool_vars, extract_vars>>

\* The loop condition fails: `if status != <terminal>: raise`.
WaitExit ==
    /\ pc = "wait"
    /\ ~LoopCond(waited_time, wait_timeout)
    /\ exhausted' = TRUE
    /\ IF status = "Unbound" THEN Raise("UnboundLocalError")
       ELSE IF status # TerminalStatus(module) THEN Raise(TimeoutMsg)
       ELSE pc' = "report" /\ UNCHANGED error
    /\ UNCHANGED <<config_vars, file_type, task_id, results, waited_time, status, log,
                   calls, search, obtained, used, sinks, returned, invocations,
                   patool_vars, extract_vars>>

\* process_report: fetch the report and run extract_info over it; any
\* failure is re-raised as a ModuleExecutionError.
ProcessReport ==
    /\ pc = "report"
    /\ calls' = [calls EXCEPT !.report = @ + 1]
    /\ used' = used \cup {task_id}
    /\ \E outcome \in {"fetch_error", "extract_error", "ok"} :
         \E fed \in SUBSET SinkKinds(module) :
            /\ outcome = "fetch_error" => fed = {}
            /\ sinks' = fed
            /\ results' = IF outcome = "fetch_error" THEN results
                          ELSE [results EXCEPT !.keys = @ \cup ReportKeys(module)]
            /\ IF outcome = "ok" THEN pc' = "url" /\ UNCHANGED error
               ELSE Raise(ReportErrorMsg)
    /\ UNCHANGED <<config_vars, file_type, task_id, waited_time, status, log, search,
                   obtained, exhausted, returned, invocations, patool_vars, extract_vars>>

\* self.results['URL'] = urljoin(self.web_endpoint, "{}".format(self.task_id))
AttachURL ==
    /\ pc = "url"
    /\ results' = [results EXCEPT !.URL = Urljoin(web_endpoint, task_id)]
    /\ used' = used \cup {task_id}
    /\ pc' = "return"
    /\ UNCHANGED <<config_vars, file_type, task_id, waited_time, status, error, log,
                   calls, search, obtained, sinks, exhausted, returned, invocations,
                   patool_vars, extract_vars>>

\* A handler that attaches the report URL before it logs.
ExceptAttachingURL ==
    /\ pc = "except"
    /\ log' = log \cup {error}
    /\ results' = [results EXCEPT !.URL = Urljoin(web_endpoint, task_id)]
    /\ pc' = "return"
    /\ UNCHANGED <<config_vars, file_type, task_id, waited_time, status, error,
                   calls, search, obtained, used, sinks, exhausted, returned,
                   invocations, patool_vars, extract_vars>>

\* except Exception as error: self.log("debug", ...).  An exception the
\* clause does not catch reaches the host.
Except ==
    /\ pc = "except"
    /\ IF ExceptException(error)
       THEN /\ log' = log \cup {error}
            /\ pc' = "return"
            /\ UNCHANGED returned
       ELSE /\ returned' = "raised"
            /\ pc' = "idle"
            /\ UNCHANGED log
    /\ UNCHANGED <<config_vars, file_type, task_id, results, waited_time, status, error,
                   calls, search, obtained, used, sinks, exhausted, invocations,
                   patool_vars, extract_vars>>

\* return True
Return ==
    /\ pc = "return"
    /\ returned' = "True"
    /\ pc' = "idle"
    /\ UNCHANGED <<config_vars, file_type, task_id, results, waited_time, status, error,
                   log, calls, search, obtained, used, sinks, exhausted, invocations,
                   patool_vars, extract_vars>>

\* ------------------------------------------------------- ExtractPatool.each

\* should_extract = len(os.listdir(tmpdir)) <= self.maximum_extracted_files
ShouldExtract(n, limit) == n <= limit

\* A strict comparison against maximum_automatic_analyses.
ShouldAnalyzeStrict(n, limit) == n < limit

\* should_analyze = len(os.listdir(tmpdir)) <= self.maximum_automatic_analyses
ShouldAnalyze(n, limit) == n <= limit

\* The loop over os.listdir(tmpdir): the names appended to namelist.
Namelist(n, should_extract) ==
    IF should_extract THEN [i \in 1..n |-> i] ELSE <<>>

\* The loop over os.listdir(tmpdir): the add_extracted_file calls.
AddExtractedFiles(n, should_extract, should_analyze) ==
    IF should_extract
    THEN [i \in 1..n |-> [fullpath |-> i, automatic_analysis |-> should_analyze]]
    ELSE <<>>

\* each(target): the archive has n members (named 1..n) or its extraction
\* raises.
Each ==
    /\ module = "extract_patool"
    /\ pc = "idle"
    /\ invocations < MaxInvocations
    /\ invocations' = invocations + 1
    /\ \E ok \in BOOLEAN, n \in 0..MaxMembers :
         LET should_extract == ShouldExtract(n, maximum_extracted_files)
             should_analyze == ShouldAnalyze(n, maximum_automatic_analyses)
         IN  /\ archive' = [ok |-> ok, members |-> n]
             /\ IF ok
                THEN /\ extracted_files' = AddExtractedFiles(n, should_extract, should_analyze)
                     /\ results' = [warnings |-> <<>>,
                                    files |-> Namelist(n, should_extract)]
                     /\ log' = {}
                     /\ error' = "none"
                     /\ returned' = "True"
                ELSE /\ extracted_files' = <<>>
                     /\ error' = "PatoolError"
                     /\ IF ExceptException("PatoolError")
                        THEN /\ results' = [warnings |-> <<"Could not extract.">>,
                                            files |-> <<>>]
                             /\ log' = {"PatoolError"}
                             /\ returned' = "True"
                        ELSE /\ results' = [warnings |-> <<>>, files |-> <<>>]
                             /\ log' = {}
                             /\ returned' = "raised"
    /\ UNCHANGED <<config_vars, pc, file_type, task_id, waited_time, status, calls,
                   search, obtained, used, sinks, exhausted, extract_vars>>

Next ==
    \/ Invoke
    \/ SubmitUrl
    \/ SearchStage
    \/ SubmitStage
    \/ StatusCheck
    \/ WaitExit
    \/ ProcessReport
    \/ AttachURL
    \/ Except
    \/ Return
    \/ Each

Spec == Init /\ [][Next]_vars

\* --------------------------------------- HatchingTriage.extract_info, merge

Keys == {"k1", "k2"}
Vals == {1, 2}

\* dict()
EmptyMap == [k \in {} |-> 1]

\* The config / credentials / dropper maps a sub-item can carry: an absent
\* (or empty) section, or one key with its value.
Maps == {EmptyMap} \cup UNION {[{k} -> Vals] : k \in Keys}

Items == [config : Maps, credentials : Maps, dropper : Maps]

\* report['analysis']: falsy (absent), or the family list and the score
\* (0 when the key is absent).
NoAnalysis == [present |-> FALSE, family |-> <<>>, score |-> 0]

\* Reports with an 'extracted' section only.
Reports == [analysis : {NoAnalysis}, signatures : {<<>>},
            extracted : SeqsUpTo(Items, MaxExtracted), tasks : {<<>>}]

\* dict(chain(config.items(), configuration.items())): the pairs of the
\* second argument are written after those of the first.
ChainDict(config, conf) ==
    [k \in DOMAIN config \cup DOMAIN conf |->
        IF k \in DOMAIN conf THEN conf[k] ELSE config[k]]

\* `if item.get(section): configuration = dict(chain(...))`
MergeSection(section, conf) ==
    IF section = EmptyMap THEN conf ELSE ChainDict(section, conf)

\* Body of the loop over report['extracted'].
MergeItem(item, conf) ==
    MergeSection(item.dropper,
        MergeSection(item.credentials,
            MergeSection(item.config, conf)))

RECURSIVE MergeExtracted(_, _)
MergeExtracted(items, conf) ==
    IF items = <<>> THEN conf
    ELSE MergeExtracted(Tail(items), MergeItem(Head(items), conf))

\* Entry of extract_info with a report drawn from R; self.task_id is the
\* handle process_report fetched the report with.
ExtractEntry(R) ==
    /\ module = "hatching_triage"
    /\ wait_timeout = 0
    /\ wait_step = 0
    /\ check_existing = FALSE
    /\ web_endpoint = [segs |-> <<>>, slash |-> TRUE]
    /\ maximum_extracted_files = 0
    /\ maximum_automatic_analyses = 0
    /\ pc = "extract_info"
    /\ file_type = "none"
    /\ task_id = 1
    /\ results = NoResults
    /\ waited_time = 0
    /\ status = "Unbound"
    /\ error = "none"
    /\ log = {}
    /\ returned = "none"
    /\ calls = NoCalls
    /\ search = NoSearch
    /\ obtained = {}
    /\ used = {}
    /\ sinks = {}
    /\ exhausted = FALSE
    /\ invocations = 0
    /\ archive = NoArchive
    /\ extracted_files = <<>>
    /\ report \in R
    /\ configuration = EmptyMap
    /\ signatures = <<>>
    /\ iocs = <<>>
    /\ fetched = <<>>

InitExtract == ExtractEntry(Reports)

\* A signature entry key that is absent.
NoKey == 0

\* The record built for one entry of report['signatures']: a key for each
\* field the entry carries (field values are truthy when present).
SignatureRecord(item) ==
    LET have == {k \in {"name", "severity", "description"} :
                    \/ k = "name" /\ item.name # NoKey
                    \/ k = "severity" /\ item.score # NoKey
                    \/ k = "description" /\ item.desc # NoKey}
    IN  [k \in have |-> IF k = "name" THEN item.name
                        ELSE IF k = "severity" THEN item.score
                        ELSE item.desc]

\* The signature loop, which sits inside `if report.get('analysis'):`.
Signatures(rep) ==
    IF rep.analysis.present
    THEN [i \in 1..Len(rep.signatures) |-> SignatureRecord(rep.signatures[i])]
    ELSE <<>>

\* extract_info(report) up to the 'extracted' section: results['score'] and
\* results['signatures'], the family name, and the map handed to
\* add_extraction.  The loop over report['tasks'] follows, task by task.
ExtractInfo ==
    /\ pc = "extract_info"
    /\ signatures' = Signatures(report)
    /\ configuration' = MergeExtracted(report.extracted, EmptyMap)
    /\ sinks' = (IF report.analysis.present /\ report.analysis.family # <<>>
                 THEN {"add_probable_name"} ELSE {})
                \cup (IF report.extracted = <<>> THEN {} ELSE {"add_extraction"})
    /\ results' = [results EXCEPT !.keys = @ \cup ReportKeys(module)]
    /\ iocs' = <<>>
    /\ fetched' = <<>>
    /\ pc' = IF report.tasks = <<>> THEN "extracted" ELSE "tasks"
    /\ UNCHANGED <<config_vars, file_type, task_id, waited_time, status, error, log,
                   calls, search, obtained, used, exhausted, returned, invocations,
                   patool_vars, report>>

NextExtract == ExtractInfo

SpecExtract == InitExtract /\ [][NextExtract]_vars

\* Entries of report['signatures']: name, score and desc, each absent or a
\* value.
SignatureEntries == [name : {NoKey, 1, 2}, score : {NoKey, 1, 2}, desc : {NoKey, 1}]

Analyses == {NoAnalysis} \cup [present : {TRUE}, family : {<<>>, <<"fam">>}, score : {0, 10}]

\* Reports with an analysis section (or none) and a signature list.
SignatureReports == [analysis : Analyses, signatures : SeqsUpTo(SignatureEntries, MaxSignatures),
                     extracted : {<<>>}, tasks : {<<>>}]

InitSignatures == ExtractEntry(SignatureReports)

SpecSignatures == InitSignatures /\ [][NextExtract]_vars

\* ------------------------------- HatchingTriage.extract_info, report['tasks']

\* str.split(sep) over a string given as its pieces, the separators being
\* pieces of their own: the fields between the separators.
RECURSIVE SplitInto(_, _, _)
SplitInto(pieces, sep, fields) ==
    IF pieces = <<>> THEN fields
    ELSE IF Head(pieces) = sep
    THEN SplitInto(Tail(pieces), sep, Append(fields, ""))
    ELSE SplitInto(Tail(pieces), sep,
                   [fields EXCEPT ![Len(fields)] = @ \o Head(pieces)])

Split(pieces, sep) == SplitInto(pieces, sep, <<"">>)

\* task['name'].startswith(prefix), a name being its pieces.
StartsWith(name, prefix) == name # <<>> /\ Head(name) = prefix

\* A proto filter that lets every flow through.
IsAnyProto(flow) == TRUE

\* flow['proto'] == "tcp"
IsTcp(flow) == flow.proto = "tcp"

\* ip, port = flow['dst'].split(":"); add_ioc(ip, ["port:" + port, "tcp"])
\* (dst is "<ip>:<port>", one colon).
FlowIoc(flow) ==
    LET parts == Split(flow.dst, ":")
    IN  [value |-> parts[1], tags |-> <<"port:" \o parts[2], "tcp">>]

\* The loop over taskreport['network']['flows'].
RECURSIVE FlowIocs(_)
FlowIocs(flows) ==
    IF flows = <<>> THEN <<>>
    ELSE (IF IsTcp(Head(flows)) THEN <<FlowIoc(Head(flows))>> ELSE <<>>)
         \o FlowIocs(Tail(flows))

\* One entry of taskreport['network']['requests']: the first domain of its
\* dns_request, then the url of its http_request (<<>> and "" stand for an
\* absent key).
RequestIoc(item) ==
    (IF item.dns_request # <<>>
     THEN <<[value |-> item.dns_request[1], tags |-> <<"dns_request">>]>> ELSE <<>>)
    \o (IF item.http_request # ""
        THEN <<[value |-> item.http_request, tags |-> <<"http_request">>]>> ELSE <<>>)

\* The loop over taskreport['network']['requests'].
RECURSIVE RequestIocs(_)
RequestIocs(requests) ==
    IF requests = <<>> THEN <<>>
    ELSE RequestIoc(Head(requests)) \o RequestIocs(Tail(requests))

\* The add_ioc calls made for one fetched task report.
TaskIocs(taskreport) == FlowIocs(taskreport.flows) \o RequestIocs(taskreport.requests)

\* task['status'] == "reported" and task['name'].startswith("behavioral")
IsBehavioralReported(task) ==
    task.status = "reported" /\ StartsWith(task.name, "behavioral")

Flows == [proto : {"tcp", "udp"}, dst : {<<"1.2.3.4", ":", "443">>}]
         \cup {[proto |-> "tcp", dst |-> <<"5.6.7.8", ":", "80">>]}

NetRequests == {[dns_request |-> <<"evil.example", "other.example">>, http_request |-> ""],
                [dns_request |-> <<>>, http_request |-> "http://evil.example/x"],
                [dns_request |-> <<>>, http_request |-> ""]}

\* Answers of triage_client.task_report.
TaskReportAnswers == [flows : SeqsUpTo(Flows, MaxFlows),
                      requests : SeqsUpTo(NetRequests, MaxRequests)]

NotFetched == [fetched |-> FALSE, taskreport |-> [flows |-> <<>>, requests |-> <<>>]]

Tasks == [status : {"reported", "pending"},
          name : {<<"behavioral", "1">>, <<"behavioral", "2">>, <<"static", "1">>}]

\* Reports with a task list only.
TaskListReports == [analysis : {NoAnalysis}, signatures : {<<>>}, extracted : {<<>>},
                    tasks : SeqsUpTo(Tasks, MaxTasks)]

\* One turn of the loop over report['tasks']: the task report of a
\* reported behavioral task is fetched and its network section turned into
\* IOCs (collect_dropfiles, collect_memdumps and collect_pcaps are at their
\* default, False).
ExtractTask ==
    /\ pc = "tasks"
    /\ LET i == Len(fetched) + 1
           task == report.tasks[i]
       IN  /\ IF IsBehavioralReported(task)
              THEN \E taskreport \in TaskReportAnswers :
                      /\ fetched' = Append(fetched, [fetched |-> TRUE,
                                                     taskreport |-> taskreport])
                      /\ iocs' = iocs \o TaskIocs(taskreport)
                      /\ used' = used \cup {task_id}
                      /\ sinks' = IF TaskIocs(taskreport) = <<>> THEN sinks
                                  ELSE sinks \cup {"add_ioc"}
              ELSE /\ fetched' = Append(fetched, NotFetched)
                   /\ UNCHANGED <<iocs, used, sinks>>
           /\ pc' = IF i = Len(report.tasks) THEN "extracted" ELSE "tasks"
    /\ UNCHANGED <<config_vars, file_type, task_id, results, waited_time, status, error,
                   log, calls, search, obtained, exhausted, returned, invocations,
                   patool_vars, report, configuration, signatures>>

InitTasks == ExtractEntry(TaskListReports)

NextTasks ==
    \/ ExtractInfo
    \/ ExtractTask

SpecTasks == InitTasks /\ [][NextTasks]_vars

\* ------------------------------------------------------------------ claims

Sandbox == module \in SandboxModules

Last(q) == q[Len(q)]

Range(q) == {q[i] : i \in 1..Len(q)}

\* ceil(a / b) for b # 0
CeilDiv(a, b) == -((-a) \div b)

\* The dedup search of this invocation answered with at least one match,
\* every match carrying its task id.
SearchHit ==
    /\ search.kind = "list"
    /\ search.items # <<>>
    /\ NoIdKey \notin Range(search.items)

\* The dedup search of this invocation failed: the call raised, the
\* response was malformed, or the result was empty.
SearchFailed ==
    \/ search.kind \in {"neterror", "notjson", "nokey"}
    \/ search.kind = "list" /\ search.items = <<>>
    \/ search.kind = "list" /\ NoIdKey \in Range(search.items)

\* C1: in an invocation whose dedup search returned a non-empty list of
\* matches, the task id of the (last) match is the handle and no upload
\* call is made, up to the end of the invocation.
C1_SearchHitNoUpload ==
    (Sandbox /\ SearchHit) =>
        /\ calls.submit = 0
        /\ task_id = Last(search.items)
        /\ obtained = Range(search.items)

C1_Witness ==
    /\ Sandbox /\ SearchHit
    /\ pc = "idle" /\ returned = "True"
    /\ calls.search = 1 /\ calls.status > 0

\* C2: in an invocation whose dedup search failed (network error, empty
\* result, malformed response), submit_file has been called once the search
\* stage is over, and when it answered with an id that id is the handle.
C2_SearchFailureSubmits ==
    (Sandbox /\ SearchFailed) =>
        /\ calls.submit = 1
        /\ error = "none" => task_id \in obtained

\* C3: every task id an invocation polls, fetches the report of or builds
\* the report URL from was obtained by a search hit or a submission of that
\* same invocation.
C3_OnlyOwnHandle ==
    Sandbox => used \subseteq obtained

\* The polling loop is over, by completion or by timeout.
WaitEnded == exhausted \/ status = TerminalStatus(module)

\* C4 as claimed: for every integer wait_timeout and wait_step, a finished
\* wait made at most ceil(wait_timeout / wait_step) status checks and
\* waited less than wait_timeout + wait_step.
C4_PollingBoundAnyIntegers ==
    (Sandbox /\ WaitEnded) =>
        /\ wait_step # 0 => calls.status <= CeilDiv(wait_timeout, wait_step)
        /\ waited_time < wait_timeout + wait_step

\* C4 as amended: with wait_timeout >= 0 and wait_step >= 1, the wait makes
\* at most ceil(wait_timeout / wait_step) status checks and the cumulative
\* waited time stays below wait_timeout + wait_step.
C4_PollingBound ==
    (Sandbox /\ wait_timeout >= 0 /\ wait_step >= 1) =>
        /\ calls.status <= CeilDiv(wait_timeout, wait_step)
        /\ waited_time < wait_timeout + wait_step
        /\ exhausted => waited_time >= wait_timeout

C4_Witness ==
    /\ Sandbox /\ exhausted
    /\ wait_timeout = 3 /\ wait_step = 2
    /\ calls.status = 2 /\ waited_time = 4

\* C5: when the polling loop ends on its timeout condition without a
\* terminal status, the report endpoint is not called, nothing derived from
\* a report is added, and the error raised and logged is the timeout error.
C5_TimeoutObservable ==
    (Sandbox /\ exhausted) =>
        /\ calls.report = 0
        /\ sinks = {}
        /\ results.keys \cap ReportKeys(module) = {}
        /\ error = TimeoutMsg
        /\ pc \in {"return", "idle"} => TimeoutMsg \in log

\* C6: no invocation of ExtractPatool.each or of each_with_type ends with an
\* exception reaching the host: it returns True, and an exception that
\* ended its work has been logged.
C6_NeverRaisesToHost ==
    /\ returned # "raised"
    /\ (pc = "idle" /\ invocations > 0) =>
          /\ returned = "True"
          /\ error # "none" => error \in log

C6_Witness ==
    /\ pc = "idle" /\ returned = "True"
    /\ error = "RequestError" /\ calls.submit = 1

\* An invocation is over, and it obtained a task handle.
EndedWithHandle ==
    /\ Sandbox /\ pc = "idle" /\ returned = "True"
    /\ obtained # {}

\* C7 as claimed: at the end of every invocation that obtained a handle,
\* results['URL'] is web_endpoint joined with the handle, also when polling
\* timed out or report processing failed.
C7_URLAlwaysAttached ==
    (EndedWithHandle /\ error \in {"none", TimeoutMsg, ReportErrorMsg}) =>
        results.URL = Urljoin(web_endpoint, task_id)

\* C7 as amended: at the end of an invocation that obtained a handle,
\* results['URL'] is web_endpoint joined with the handle when polling and
\* report processing both completed, and is absent when any of them raised.
C7_URLAttachedOnSuccess ==
    EndedWithHandle =>
        /\ error = "none" =>
              /\ results.URL = Urljoin(web_endpoint, task_id)
              /\ task_id \in obtained
              /\ calls.report = 1
        /\ error # "none" => results.URL = NoURL

C7_Witness ==
    /\ EndedWithHandle
    /\ error = "none"
    /\ ~web_endpoint.slash
    /\ results.URL = [segs |-> <<>>, leaf |-> task_id]

\* The values key k has in the sections of one sub-item.
ValuesIn(item, k) ==
    {m[k] : m \in {x \in {item.config, item.credentials, item.dropper} : k \in DOMAIN x}}

\* C8: for every key of the merged configuration, the value is the one
\* given by the last sub-item (in report order) that carries the key.
C8_LastWriteWins ==
    pc = "extracted" =>
        \A k \in DOMAIN configuration :
            LET carriers == {i \in 1..Len(report.extracted) :
                                ValuesIn(report.extracted[i], k) # {}}
                last == CHOOSE i \in carriers : \A j \in carriers : j <= i
            IN  configuration[k] \in ValuesIn(report.extracted[last], k)

\* ExtractPatool.each ran on an archive that extracted without error.
Extracted == module = "extract_patool" /\ invocations > 0 /\ archive.ok

\* C9: for an extracted archive with more members than
\* maximum_extracted_files, no member is registered and results['files']
\* names all members.
C9_ListingStillReported ==
    (Extracted /\ archive.members > maximum_extracted_files) =>
        /\ extracted_files = <<>>
        /\ results.files = [i \in 1..archive.members |-> i]

\* C10: for an extracted archive with n <= maximum_extracted_files members,
\* every member is registered exactly once, each with automatic_analysis
\* true exactly when n <= maximum_automatic_analyses.
C10_RegisteredAndFlagged ==
    (Extracted /\ archive.members <= maximum_extracted_files) =>
        /\ Len(extracted_files) = archive.members
        /\ \A m \in 1..archive.members :
              Cardinality({j \in 1..Len(extracted_files) :
                              extracted_files[j].fullpath = m}) = 1
        /\ \A j \in 1..Len(extracted_files) :
              extracted_files[j].automatic_analysis
                  = (archive.members <= maximum_automatic_analyses)

C10_Witness ==
    /\ Extracted
    /\ archive.members = 3 /\ maximum_extracted_files = 3
    /\ maximum_automatic_analyses = 1
    /\ Len(extracted_files) = 3
    /\ ~extracted_files[1].automatic_analysis

\* How often x occurs in the sequence q.
Count(q, x) == Cardinality({i \in 1..Len(q) : q[i] = x})

\* The tasks of the report that are reported and behavioral.
Behavioral ==
    {t \in 1..Len(report.tasks) :
        /\ report.tasks[t].status = "reported"
        /\ Head(report.tasks[t].name) = "behavioral"}

\* The IOC the claim gives a tcp flow, a DNS request, an HTTP request.
TcpIocOf(flow) == [value |-> flow.dst[1], tags |-> <<"port:" \o flow.dst[3], "tcp">>]
DnsIocOf(item) == [value |-> item.dns_request[1], tags |-> <<"dns_request">>]
HttpIocOf(item) == [value |-> item.http_request, tags |-> <<"http_request">>]

\* The (task, flow) pairs and (task, request) pairs that are to give x.
TcpFlowsGiving(x) ==
    UNION {{<<t, f>> : f \in {g \in 1..Len(fetched[t].taskreport.flows) :
                                LET flow == fetched[t].taskreport.flows[g]
                                IN  flow.proto = "tcp" /\ TcpIocOf(flow) = x}}
           : t \in Behavioral}

DnsRequestsGiving(x) ==
    UNION {{<<t, r>> : r \in {g \in 1..Len(fetched[t].taskreport.requests) :
                                LET item == fetched[t].taskreport.requests[g]
                                IN  item.dns_request # <<>> /\ DnsIocOf(item) = x}}
           : t \in Behavioral}

HttpRequestsGiving(x) ==
    UNION {{<<t, r>> : r \in {g \in 1..Len(fetched[t].taskreport.requests) :
                                LET item == fetched[t].taskreport.requests[g]
                                IN  item.http_request # "" /\ HttpIocOf(item) = x}}
           : t \in Behavioral}

\* Every IOC a tcp flow or a request of a fetched task report could give.
CandidateIocs ==
    UNION {{TcpIocOf(fl) : fl \in Range(fetched[t].taskreport.flows)}
           \cup {DnsIocOf(it) : it \in {r \in Range(fetched[t].taskreport.requests) :
                                           r.dns_request # <<>>}}
           \cup {HttpIocOf(it) : it \in Range(fetched[t].taskreport.requests)}
           : t \in 1..Len(fetched)}

RecordOf(entry) ==
    [k \in {n \in {"name", "severity", "description"} :
               \/ n = "name" /\ entry.name # NoKey
               \/ n = "severity" /\ entry.score # NoKey
               \/ n = "description" /\ entry.desc # NoKey}
        |-> IF k = "name" THEN entry.name
            ELSE IF k = "severity" THEN entry.score ELSE entry.desc]

\* C12: for a report with a signature list, with or without an analysis
\* section, results['signatures'] holds one record per entry, in report
\* order, with exactly the fields the entry has.
C12_SignaturesAlways ==
    (pc = "extracted" /\ report.signatures # <<>>) =>
        signatures = [i \in 1..Len(report.signatures) |-> RecordOf(report.signatures[i])]
====
